---- MODULE Spec2Model ----
(***************************************************************************)
(* EvaluationConfig (src/evaluation_config.py): five optional string       *)
(* settings, each resolved from a constructor argument or from its         *)
(* environment variable, with a derived model mapping, a completeness      *)
(* check, a validation call and a display form that masks the API key.     *)
(*                                                                         *)
(* A Python str is a sequence of one-character strings; an Optional[str]   *)
(* is a record [none, s], so that None and "" are different values.        *)
(***************************************************************************)
EXTENDS Integers, Sequences, FiniteSets, TLC

VARIABLES
    env,      \* os.environ restricted to the variables read: name -> Optional[str] (None = unset)
    pc,       \* "env": no instance yet; "built": the instance exists
    args,     \* the arguments the constructor was called with
    config,   \* the instance's five attributes
    result,   \* outcome of the last call on the instance
    env0,     \* the environment as it was when the instance was constructed
    other,    \* a second instance of the same process: its attributes and last outcome
    thr,      \* threads reading the instance: the call each is in and what it has read
    script,   \* aiCloudEvaluatorAIEvaluationSDK.py: its position and its module-level names
    local,    \* aiLOCALevaluator.py: its position, its module-level names, the remote objects
    dicts     \* the dictionaries get_model_config() has returned, and who holds them

vars == <<env, pc, args, config, result, env0, other, thr, script, local, dicts>>

----------------------------------------------------------------------------
\* Bounds of the model.

\* At most this many of the five environment variables are set at one time.
MaxEnvSet == 2

\* An operation is called at most this many times in a row.
MaxRepeat == 2

\* Longest run of one character in the API keys of the display-form specification;
\* a key is two runs, so keys have lengths 0 .. 2 * MaxRun.
MaxRun == 5

----------------------------------------------------------------------------
\* Values.

None == [none |-> TRUE, s |-> <<>>]
Str(s) == [none |-> FALSE, s |-> s]

\* Python truthiness of an Optional[str]: None and "" are falsy.
Truthy(v) == ~v.none /\ Len(v.s) > 0

\* Faulty variants of `a or b`: the fallback dropped; "" when both are falsy;
\* the fallback preferred.
PyOrFirstOnly(a, b) == IF Truthy(a) THEN a ELSE None
PyOrEmpty(a, b) == IF Truthy(a) THEN a ELSE IF Truthy(b) THEN b ELSE Str(<<>>)
PyOrEnvFirst(a, b) == IF Truthy(b) THEN b ELSE a
\* Python `a or b`: a when a is truthy, else b (whatever b is).
PyOr(a, b) == IF Truthy(a) THEN a ELSE b

Fields == {"azure_deployment", "api_key", "azure_endpoint", "api_version", "azure_ai_project"}
EnvVars == {"AZURE_DEPLOYMENT_NAME", "AZURE_API_KEY", "AZURE_ENDPOINT", "AZURE_API_VERSION", "AZURE_AI_PROJECT"}
\* The variables the scripts read as well.
ScriptEnvVars == EnvVars \cup {"MODEL_DEPLOYMENT_NAME"}

\* os.getenv(name): the variable's value, None when it is unset.
Getenv(name) == env[name]

\* Values the harness passes as constructor arguments and puts in the environment.
ArgStrings == {<<>>, <<"x">>}
EnvStrings == {<<>>, <<"w">>}
ArgValues == {None} \cup {Str(s) : s \in ArgStrings}

NumSet(e) == Cardinality({v \in DOMAIN e : ~e[v].none})

----------------------------------------------------------------------------
\* Text literals of the source, character by character.

ReprOpen == <<"E","v","a","l","u","a","t","i","o","n","C","o","n","f","i","g","(">>
ReprDeployment == <<"a","z","u","r","e","_","d","e","p","l","o","y","m","e","n","t","=">>
ReprApiKey == <<"a","p","i","_","k","e","y","=">>
ReprEndpoint == <<"a","z","u","r","e","_","e","n","d","p","o","i","n","t","=">>
ReprVersion == <<"a","p","i","_","v","e","r","s","i","o","n","=">>
ReprProject == <<"a","z","u","r","e","_","a","i","_","p","r","o","j","e","c","t","=">>
ReprSep == <<","," ">>
ReprClose == <<")">>
NoneText == <<"N","o","n","e">>
Ellipsis == <<".",".",".">>
Marker == <<"*","*","*","*">>
MsgPrefix == <<"M","i","s","s","i","n","g"," ","r","e","q","u","i","r","e","d"," ","c","o","n","f","i","g","u","r","a","t","i","o","n"," ","f","i","e","l","d","s",":"," ">>
JoinSep == <<","," ">>
N_azure_deployment == <<"a","z","u","r","e","_","d","e","p","l","o","y","m","e","n","t">>
N_api_key == <<"a","p","i","_","k","e","y">>
N_azure_endpoint == <<"a","z","u","r","e","_","e","n","d","p","o","i","n","t">>
N_api_version == <<"a","p","i","_","v","e","r","s","i","o","n">>
N_azure_ai_project == <<"a","z","u","r","e","_","a","i","_","p","r","o","j","e","c","t">>

----------------------------------------------------------------------------
\* __init__: each attribute is the argument, or else its own environment variable.

\* Faulty variant: two fields read each other's environment variable.
EvaluationConfigSwapped(a) ==
    [azure_deployment |-> PyOr(a.azure_deployment, Getenv("AZURE_DEPLOYMENT_NAME")),
     api_key          |-> PyOr(a.api_key, Getenv("AZURE_API_KEY")),
     azure_endpoint   |-> PyOr(a.azure_endpoint, Getenv("AZURE_AI_PROJECT")),
     api_version      |-> PyOr(a.api_version, Getenv("AZURE_API_VERSION")),
     azure_ai_project |-> PyOr(a.azure_ai_project, Getenv("AZURE_ENDPOINT"))]
EvaluationConfig(a) ==
    [azure_deployment |-> PyOr(a.azure_deployment, Getenv("AZURE_DEPLOYMENT_NAME")),
     api_key          |-> PyOr(a.api_key, Getenv("AZURE_API_KEY")),
     azure_endpoint   |-> PyOr(a.azure_endpoint, Getenv("AZURE_ENDPOINT")),
     api_version      |-> PyOr(a.api_version, Getenv("AZURE_API_VERSION")),
     azure_ai_project |-> PyOr(a.azure_ai_project, Getenv("AZURE_AI_PROJECT"))]

----------------------------------------------------------------------------
\* get_model_config: the four model attributes under their own names.

\* Faulty variant: the project URL is put in the mapping too.
get_model_config_with_project(self) ==
    [azure_deployment |-> self.azure_deployment,
     api_key          |-> self.api_key,
     azure_endpoint   |-> self.azure_endpoint,
     api_version      |-> self.api_version,
     azure_ai_project |-> self.azure_ai_project]
get_model_config(self) ==
    [azure_deployment |-> self.azure_deployment,
     api_key          |-> self.api_key,
     azure_endpoint   |-> self.azure_endpoint,
     api_version      |-> self.api_version]

----------------------------------------------------------------------------
\* is_valid: all([...]) over the four required attributes.

PyAll(list) == \A i \in DOMAIN list : Truthy(list[i])

\* Faulty variants: a test for None only; api_version left out; a falsy
\* attribute looked up again in the environment at the time of the call.
is_valid_live(self) ==
    PyAll(<<PyOr(self.azure_deployment, Getenv("AZURE_DEPLOYMENT_NAME")),
            PyOr(self.api_key, Getenv("AZURE_API_KEY")),
            PyOr(self.azure_endpoint, Getenv("AZURE_ENDPOINT")),
            PyOr(self.api_version, Getenv("AZURE_API_VERSION"))>>)
is_valid_not_none(self) ==
    \A i \in 1..4 :
        ~(<<self.azure_deployment, self.api_key, self.azure_endpoint, self.api_version>>[i]).none
is_valid_three(self) ==
    PyAll(<<self.azure_deployment, self.api_key, self.azure_endpoint>>)
is_valid(self) ==
    PyAll(<<self.azure_deployment, self.api_key, self.azure_endpoint, self.api_version>>)

----------------------------------------------------------------------------
\* validate: collect the names of the falsy required attributes, in order,
\* and raise ValueError naming them all.

RECURSIVE Join(_, _)
\* sep.join(list)
Join(sep, list) ==
    IF Len(list) = 0 THEN <<>>
    ELSE IF Len(list) = 1 THEN list[1]
    ELSE list[1] \o sep \o Join(sep, Tail(list))

\* Faulty variants: all four names reported when any field is missing; only
\* the first missing field reported; the project URL treated as required.
missing_fields_all_or_none(self) ==
    IF \A i \in 1..4 :
          Truthy(<<self.azure_deployment, self.api_key, self.azure_endpoint, self.api_version>>[i])
    THEN <<>>
    ELSE <<N_azure_deployment, N_api_key, N_azure_endpoint, N_api_version>>
missing_fields_first_only(self) ==
    IF ~Truthy(self.azure_deployment) THEN <<N_azure_deployment>>
    ELSE IF ~Truthy(self.api_key) THEN <<N_api_key>>
    ELSE IF ~Truthy(self.azure_endpoint) THEN <<N_azure_endpoint>>
    ELSE IF ~Truthy(self.api_version) THEN <<N_api_version>>
    ELSE <<>>
missing_fields_with_project(self) ==
    LET m0 == <<>>
        m1 == IF ~Truthy(self.azure_deployment) THEN Append(m0, N_azure_deployment) ELSE m0
        m2 == IF ~Truthy(self.api_key) THEN Append(m1, N_api_key) ELSE m1
        m3 == IF ~Truthy(self.azure_endpoint) THEN Append(m2, N_azure_endpoint) ELSE m2
        m4 == IF ~Truthy(self.api_version) THEN Append(m3, N_api_version) ELSE m3
        m5 == IF ~Truthy(self.azure_ai_project) THEN Append(m4, N_azure_ai_project) ELSE m4
    IN  m5
missing_fields(self) ==
    LET m0 == <<>>
        m1 == IF ~Truthy(self.azure_deployment) THEN Append(m0, N_azure_deployment) ELSE m0
        m2 == IF ~Truthy(self.api_key) THEN Append(m1, N_api_key) ELSE m1
        m3 == IF ~Truthy(self.azure_endpoint) THEN Append(m2, N_azure_endpoint) ELSE m2
        m4 == IF ~Truthy(self.api_version) THEN Append(m3, N_api_version) ELSE m3
    IN  m4

\* The outcome of validate(): returns None, or raises ValueError(text).
validate(self) ==
    IF Len(missing_fields(self)) > 0
    THEN [raised |-> TRUE, exc |-> "ValueError",
          text |-> MsgPrefix \o Join(JoinSep, missing_fields(self))]
    ELSE [raised |-> FALSE, exc |-> "", text |-> <<>>]

----------------------------------------------------------------------------
\* __repr__: every attribute through !r, the API key masked first.

MaskKeep == 4
MaskThreshold == 8

\* s[:n] and s[-n:] of Python, n > 0.
PySliceHead(s, n) == SubSeq(s, 1, IF Len(s) < n THEN Len(s) ELSE n)
PySliceTail(s, n) == SubSeq(s, (IF Len(s) < n THEN 0 ELSE Len(s) - n) + 1, Len(s))

\* Faulty variant: keys of exactly MaskThreshold characters are abbreviated too.
masked_key_at_threshold(self) ==
    IF Truthy(self.api_key) /\ Len(self.api_key.s) >= MaskThreshold
    THEN PySliceHead(self.api_key.s, MaskKeep) \o Ellipsis \o PySliceTail(self.api_key.s, MaskKeep)
    ELSE Marker
masked_key(self) ==
    IF Truthy(self.api_key) /\ Len(self.api_key.s) > MaskThreshold
    THEN PySliceHead(self.api_key.s, MaskKeep) \o Ellipsis \o PySliceTail(self.api_key.s, MaskKeep)
    ELSE Marker

\* len(v) and v[i:j] raise TypeError when v is None.
PyLenRaises(v) == v.none
PySliceRaises(v) == v.none

\* Faulty variant: the length is taken whether or not there is a key.
masked_key_raises_unguarded(self) == PyLenRaises(self.api_key)
\* Whether computing masked_key raises: `and` takes len() only of a truthy
\* key, and the slices are taken only when the condition holds.
masked_key_raises(self) ==
    \/ Truthy(self.api_key) /\ PyLenRaises(self.api_key)
    \/ /\ Truthy(self.api_key)
       /\ Len(self.api_key.s) > MaskThreshold
       /\ PySliceRaises(self.api_key)

\* repr() of a str: single quotes, unless the text has a ' and no "; the
\* quote in use and the backslash are escaped.
PyEscape(c, q) == IF c = "\\" \/ c = q THEN <<"\\", c>> ELSE <<c>>

RECURSIVE PyEscapeAll(_, _)
PyEscapeAll(s, q) ==
    IF Len(s) = 0 THEN <<>> ELSE PyEscape(Head(s), q) \o PyEscapeAll(Tail(s), q)

PyReprStr(s) ==
    LET single == \E i \in DOMAIN s : s[i] = "'"
        double == \E i \in DOMAIN s : s[i] = "\""
        q == IF single /\ ~double THEN "\"" ELSE "'"
    IN  <<q>> \o PyEscapeAll(s, q) \o <<q>>

\* repr() of an Optional[str].
PyRepr(v) == IF v.none THEN NoneText ELSE PyReprStr(v.s)

\* Faulty variant: the fifth attribute is left out of the text.
Repr_without_project(self) ==
    ReprOpen
    \o ReprDeployment \o PyRepr(self.azure_deployment) \o ReprSep
    \o ReprApiKey \o PyReprStr(masked_key(self)) \o ReprSep
    \o ReprEndpoint \o PyRepr(self.azure_endpoint) \o ReprSep
    \o ReprVersion \o PyRepr(self.api_version) \o ReprClose
Repr(self) ==
    ReprOpen
    \o ReprDeployment \o PyRepr(self.azure_deployment) \o ReprSep
    \o ReprApiKey \o PyReprStr(masked_key(self)) \o ReprSep
    \o ReprEndpoint \o PyRepr(self.azure_endpoint) \o ReprSep
    \o ReprVersion \o PyRepr(self.api_version) \o ReprSep
    \o ReprProject \o PyRepr(self.azure_ai_project) \o ReprClose

----------------------------------------------------------------------------
\* The process: the environment is set up, one instance is constructed, and
\* its operations are called.

NoArgs == [f \in Fields |-> None]
NoResult ==
    [op |-> "none", times |-> 0, raised |-> FALSE, exc |-> "", bool |-> FALSE,
     text |-> <<>>, map |-> <<>>]

\* How many times in a row `op` has been called once this call is made.
Times(op) == IF result.op = op THEN result.times + 1 ELSE 1

Returned(op, b, t, m) ==
    [op |-> op, times |-> Times(op), raised |-> FALSE, exc |-> "", bool |-> b,
     text |-> t, map |-> m]

Raised(op, exc, t) ==
    [op |-> op, times |-> Times(op), raised |-> TRUE, exc |-> exc, bool |-> FALSE,
     text |-> t, map |-> <<>>]

\* The four operations of a constructed instance, and what op returns or
\* raises when called on self.
Ops == {"get_model_config", "is_valid", "validate", "__repr__"}

Outcome(op, self) ==
    CASE op = "get_model_config" ->
            [raised |-> FALSE, exc |-> "", bool |-> FALSE, text |-> <<>>,
             map |-> get_model_config(self)]
      [] op = "is_valid" ->
            [raised |-> FALSE, exc |-> "", bool |-> is_valid(self), text |-> <<>>,
             map |-> <<>>]
      [] op = "validate" ->
            [raised |-> validate(self).raised, exc |-> validate(self).exc,
             bool |-> FALSE, text |-> validate(self).text, map |-> <<>>]
      [] op = "__repr__" ->
            IF masked_key_raises(self)
            THEN [raised |-> TRUE, exc |-> "TypeError", bool |-> FALSE, text |-> <<>>,
                  map |-> <<>>]
            ELSE [raised |-> FALSE, exc |-> "", bool |-> FALSE, text |-> Repr(self),
                  map |-> <<>>]

\* Threads that read one instance at the same time.
Threads == {"t1", "t2"}

NoOutcome == [raised |-> FALSE, exc |-> "", bool |-> FALSE, text |-> <<>>, map |-> <<>>]
NoOther == [pc |-> "none", config |-> NoArgs, op |-> "none", out |-> NoOutcome]
NoThread ==
    [phase |-> "idle", op |-> "none", acc |-> <<>>, out |-> NoOutcome, met |-> FALSE]
NoScript ==
    [pc |-> "start", model_config |-> <<>>, azure_ai_project |-> None,
     evaluators |-> <<>>, evaluate |-> <<>>]
\* aiLOCALevaluator.py before its first statement: nothing bound, nothing
\* created in the project, nothing printed.
NoLocal ==
    [pc |-> "start", error |-> "", project_endpoint |-> None, client |-> FALSE,
     agents |-> 0, threads |-> 0, messages |-> 0, runs |-> 0, status |-> "",
     printed |-> <<>>, listed |-> FALSE, converted |-> FALSE,
     model_config |-> <<>>, reasoning_model_config |-> <<>>, azure_ai_project |-> None,
     constructed |-> <<>>, called |-> <<>>]
\* No dictionary returned yet: `heap` is the dictionaries by identity, `held`
\* the references the callers hold, in the order they were returned.
NoDicts == [heap |-> <<>>, held |-> <<>>]

CanCall(op) == pc = "built" /\ (result.op = op => result.times < MaxRepeat)

Init ==
    /\ env = [v \in ScriptEnvVars |-> None]
    /\ pc = "env"
    /\ args = NoArgs
    /\ config = NoArgs
    /\ result = NoResult
    /\ env0 = [v \in ScriptEnvVars |-> None]
    /\ other = NoOther
    /\ thr = [t \in Threads |-> NoThread]
    /\ script = NoScript
    /\ local = NoLocal
    /\ dicts = NoDicts

\* os.environ[v] = s, for a variable v of V
SetenvIn(V) ==
    \E v \in V, s \in EnvStrings :
        /\ pc = "env"
        /\ env[v].none => NumSet(env) < MaxEnvSet
        /\ env' = [env EXCEPT ![v] = Str(s)]
        /\ UNCHANGED <<pc, args, config, result, env0, other, thr, script, local, dicts>>

Setenv == SetenvIn(EnvVars)

\* del os.environ[v]
Delenv ==
    \E v \in EnvVars :
        /\ pc = "env"
        /\ ~env[v].none
        /\ env' = [env EXCEPT ![v] = None]
        /\ UNCHANGED <<pc, args, config, result, env0, other, thr, script, local, dicts>>

\* config = EvaluationConfig(**a)
ConstructWith(a) ==
    /\ pc = "env"
    /\ pc' = "built"
    /\ args' = a
    /\ config' = EvaluationConfig(a)
    /\ result' = Returned("__init__", FALSE, <<>>, <<>>)
    /\ env0' = env
    /\ UNCHANGED <<env, other, thr, script, local, dicts>>

Construct == \E a \in [Fields -> ArgValues] : ConstructWith(a)

CallGetModelConfig ==
    /\ CanCall("get_model_config")
    /\ result' = Returned("get_model_config", FALSE, <<>>, get_model_config(config))
    /\ UNCHANGED <<env, pc, args, config, env0, other, thr, script, local, dicts>>

CallIsValid ==
    /\ CanCall("is_valid")
    /\ result' = Returned("is_valid", is_valid(config), <<>>, <<>>)
    /\ UNCHANGED <<env, pc, args, config, env0, other, thr, script, local, dicts>>

\* Faulty variant: validate() also rewrites every falsy attribute to None.
CallValidateNormalising ==
    /\ CanCall("validate")
    /\ result' = [op |-> "validate", times |-> Times("validate"),
                  raised |-> validate(config).raised, exc |-> validate(config).exc,
                  bool |-> FALSE, text |-> validate(config).text, map |-> <<>>]
    /\ config' = [f \in Fields |-> IF Truthy(config[f]) THEN config[f] ELSE None]
    /\ UNCHANGED <<env, pc, args, env0, other, thr, script, local, dicts>>

CallValidate ==
    /\ CanCall("validate")
    /\ result' = [op |-> "validate", times |-> Times("validate"),
                  raised |-> validate(config).raised, exc |-> validate(config).exc,
                  bool |-> FALSE, text |-> validate(config).text, map |-> <<>>]
    /\ UNCHANGED <<env, pc, args, config, env0, other, thr, script, local, dicts>>

CallRepr ==
    /\ CanCall("__repr__")
    /\ result' = IF masked_key_raises(config)
                 THEN Raised("__repr__", "TypeError", <<>>)
                 ELSE Returned("__repr__", FALSE, Repr(config), <<>>)
    /\ UNCHANGED <<env, pc, args, config, env0, other, thr, script, local, dicts>>

Next ==
    \/ Setenv
    \/ Delenv
    \/ Construct
    \/ CallGetModelConfig
    \/ CallIsValid
    \/ CallValidate
    \/ CallRepr

Spec == Init /\ [][Next]_vars

----------------------------------------------------------------------------
\* The display form over many API keys: the key comes from the argument or
\* from AZURE_API_KEY, and is two runs of characters, so that short keys,
\* keys around the masking threshold and keys made of the mask's own
\* characters all occur.

KeyChars == {"x", ".", "*"}
Run(c, n) == [i \in 1..n |-> c]
KeyStrings == {Run(c, n) \o Run(d, m) : c \in KeyChars, d \in KeyChars, n \in 0..MaxRun, m \in 0..MaxRun}
KeyValues == {None} \cup {Str(k) : k \in KeyStrings}
OtherValues == {None, Str(<<"w", "'">>)}
KeyedArgs ==
    {[f \in Fields |-> IF f = "api_key" THEN k ELSE o[f]] :
        k \in KeyValues, o \in [Fields \ {"api_key"} -> OtherValues]}

SetenvApiKey == SetenvIn({"AZURE_API_KEY"})

ConstructKeyed == \E a \in KeyedArgs : ConstructWith(a)

NextRepr ==
    \/ SetenvApiKey
    \/ ConstructKeyed
    \/ CallRepr

SpecRepr == Init /\ [][NextRepr]_vars

----------------------------------------------------------------------------
\* aiCloudEvaluatorAIEvaluationSDK.py, statement by statement: the model configuration is
\* read from the environment, the two evaluators are constructed with it, and
\* evaluate() is called.

\* model_config = {...}
CloudModelConfigValue ==
    [azure_deployment |-> Getenv("AZURE_DEPLOYMENT_NAME"),
     api_key          |-> Getenv("AZURE_API_KEY"),
     azure_endpoint   |-> Getenv("AZURE_ENDPOINT"),
     api_version      |-> Getenv("AZURE_API_VERSION")]

\* evaluator_config = {...}, with the braces where the source has them.
evaluator_config ==
    [groundedness |->
        [column_mapping |->
            [query |-> "${data.query}", context |-> "${data.context}",
             response |-> "${data.response}"],
         similarity |->
            [column_mapping |->
                [query |-> "${data.query}", ground_truth |-> "${data.context}",
                 response |-> "${data.response}"]]]]

CloudFrame == UNCHANGED <<env, args, config, result, env0, other, thr, local, dicts>>

CloudModelConfig ==
    /\ pc = "env"
    /\ script.pc = "start"
    /\ pc' = "cloud"
    /\ script' = [script EXCEPT !.pc = "model_config", !.model_config = CloudModelConfigValue]
    /\ CloudFrame

\* azure_ai_project = os.environ.get("AZURE_AI_PROJECT")
CloudProject ==
    /\ script.pc = "model_config"
    /\ script' = [script EXCEPT !.pc = "project",
                                !.azure_ai_project = Getenv("AZURE_AI_PROJECT")]
    /\ UNCHANGED pc
    /\ CloudFrame

\* groundedness_eval = GroundednessEvaluator(model_config)
CloudGroundedness ==
    /\ script.pc = "project"
    /\ script' = [script EXCEPT
                    !.pc = "groundedness",
                    !.evaluators = Append(@, [cls |-> "GroundednessEvaluator",
                                              model_config |-> script.model_config,
                                              threshold |-> 0])]
    /\ UNCHANGED pc
    /\ CloudFrame

\* similarity = SimilarityEvaluator(model_config=model_config, threshold=3)
CloudSimilarity ==
    /\ script.pc = "groundedness"
    /\ script' = [script EXCEPT
                    !.pc = "similarity",
                    !.evaluators = Append(@, [cls |-> "SimilarityEvaluator",
                                              model_config |-> script.model_config,
                                              threshold |-> 3])]
    /\ UNCHANGED pc
    /\ CloudFrame

\* result = evaluate(data=..., evaluators=..., evaluator_config=..., ...)
CloudEvaluate ==
    /\ script.pc = "similarity"
    /\ script' = [script EXCEPT
                    !.pc = "done",
                    !.evaluate = [data |-> "sample.jsonl",
                                  evaluators |-> [groundedness |-> script.evaluators[1],
                                                  similarity |-> script.evaluators[2]],
                                  evaluator_config |-> evaluator_config,
                                  azure_ai_project |-> script.azure_ai_project,
                                  output_path |-> "./myevalresults.json"]]
    /\ UNCHANGED pc
    /\ CloudFrame

NextCloud ==
    \/ Setenv
    \/ Delenv
    \/ CloudModelConfig
    \/ CloudProject
    \/ CloudGroundedness
    \/ CloudSimilarity
    \/ CloudEvaluate

SpecCloud == Init /\ [][NextCloud]_vars

----------------------------------------------------------------------------
\* The environment changed after construction: one instance is built from the
\* environment, then variables are set, changed and deleted between its calls.

\* How many variables may differ from their value at construction.
MaxEnvLater == 1

EnvLater(e) == Cardinality({v \in EnvVars : e[v] # env0[v]})

\* Constructor arguments: none, or the deployment and the key.
LaterArgs ==
    {NoArgs,
     [NoArgs EXCEPT !.azure_deployment = Str(<<"x">>), !.api_key = Str(<<"x">>)]}

ConstructFromEnv == \E a \in LaterArgs : ConstructWith(a)

\* os.environ[v] = s, with the instance alive
SetenvLater ==
    \E v \in EnvVars, s \in EnvStrings :
        /\ pc = "built"
        /\ EnvLater([env EXCEPT ![v] = Str(s)]) <= MaxEnvLater
        /\ env' = [env EXCEPT ![v] = Str(s)]
        /\ UNCHANGED <<pc, args, config, result, env0, other, thr, script, local, dicts>>

\* del os.environ[v], with the instance alive
DelenvLater ==
    \E v \in EnvVars :
        /\ pc = "built"
        /\ ~env[v].none
        /\ EnvLater([env EXCEPT ![v] = None]) <= MaxEnvLater
        /\ env' = [env EXCEPT ![v] = None]
        /\ UNCHANGED <<pc, args, config, result, env0, other, thr, script, local, dicts>>

NextEnv ==
    \/ Setenv
    \/ Delenv
    \/ ConstructFromEnv
    \/ SetenvLater
    \/ DelenvLater
    \/ CallGetModelConfig
    \/ CallIsValid
    \/ CallValidate
    \/ CallRepr

SpecEnv == Init /\ [][NextEnv]_vars

----------------------------------------------------------------------------
\* Two instances in one process: config, built from the environment, and
\* custom_config, built afterwards from explicit values.

\* Constructor arguments of the second instance: all five, or none.
OtherArgs == {NoArgs, [f \in Fields |-> Str(<<"x">>)]}

\* Faulty variant: the attributes live on the class, so the second
\* construction also rewrites those of the first instance.
ConstructOtherShared ==
    \E a \in OtherArgs :
        /\ pc = "built"
        /\ other.pc = "none"
        /\ other' = [pc |-> "built", config |-> EvaluationConfig(a), op |-> "__init__",
                     out |-> NoOutcome]
        /\ config' = EvaluationConfig(a)
        /\ UNCHANGED <<env, pc, args, result, env0, thr, script, local, dicts>>

\* custom_config = EvaluationConfig(**a)
ConstructOther ==
    \E a \in OtherArgs :
        /\ pc = "built"
        /\ other.pc = "none"
        /\ other' = [pc |-> "built", config |-> EvaluationConfig(a), op |-> "__init__",
                     out |-> NoOutcome]
        /\ UNCHANGED <<env, pc, args, config, result, env0, thr, script, local, dicts>>

\* custom_config.is_valid(), repr(custom_config), ...
CallOther ==
    \E op \in Ops :
        /\ other.pc = "built"
        /\ other' = [other EXCEPT !.op = op, !.out = Outcome(op, other.config)]
        /\ UNCHANGED <<env, pc, args, config, result, env0, thr, script, local, dicts>>

NextTwo ==
    \/ Setenv
    \/ Delenv
    \/ ConstructFromEnv
    \/ CallGetModelConfig
    \/ CallIsValid
    \/ CallValidate
    \/ CallRepr
    \/ ConstructOther
    \/ CallOther

SpecTwo == Init /\ [][NextTwo]_vars

----------------------------------------------------------------------------
\* Concurrent readers of one instance. A call is not atomic: it reads the
\* attributes one at a time, in the order of the method's text, and another
\* thread may run between two reads. acc holds what the call has read so far;
\* met records that another call was in progress during this one.

\* Constructor arguments: no key, a short key, a key longer than MaskThreshold;
\* deployment and endpoint given or not.
ThreadArgs ==
    {[azure_deployment |-> d, api_key |-> k, azure_endpoint |-> e,
      api_version |-> Str(<<"x">>), azure_ai_project |-> None] :
        d \in ArgValues \ {Str(<<>>)}, e \in ArgValues \ {Str(<<>>)},
        k \in {None, Str(<<"x">>), Str([i \in 1..(MaskThreshold + 1) |-> "x"])}}

ConstructThreaded == \E a \in ThreadArgs : ConstructWith(a)

\* The attributes as the reads of acc show them: the value last read, None for
\* an attribute not read.
View(acc) ==
    [f \in Fields |->
        IF \E i \in DOMAIN acc : acc[i].attr = f
        THEN acc[CHOOSE i \in DOMAIN acc :
                    acc[i].attr = f /\ \A j \in DOMAIN acc : acc[j].attr = f => j <= i].v
        ELSE None]

\* The reads of self.api_key in the masked_key line of __repr__: one for the
\* truth test, a second for len() when it is truthy, two more for the slices
\* when it is longer than MaskThreshold.
KeyReads(self) ==
    IF ~Truthy(self.api_key) THEN <<"api_key">>
    ELSE IF Len(self.api_key.s) > MaskThreshold
         THEN <<"api_key", "api_key", "api_key", "api_key">>
         ELSE <<"api_key", "api_key">>

\* The attribute reads of op, in the order of the method's text.
ReadOrder(op, self) ==
    IF op = "__repr__"
    THEN KeyReads(self)
         \o <<"azure_deployment", "azure_endpoint", "api_version", "azure_ai_project">>
    ELSE <<"azure_deployment", "api_key", "azure_endpoint", "api_version">>

\* The attribute a call that has read acc reads next; "return" when none.
NextRead(op, acc) ==
    IF Len(acc) < Len(ReadOrder(op, View(acc)))
    THEN ReadOrder(op, View(acc))[Len(acc) + 1]
    ELSE "return"

Running(t) == thr[t].phase = "running"

\* Thread t calls op on the instance.
ThreadCall ==
    \E t \in Threads, op \in Ops :
        /\ pc = "built"
        /\ thr[t].phase \in {"idle", "done"}
        /\ thr' = [thr EXCEPT ![t] = [phase |-> "running", op |-> op, acc |-> <<>>,
                                      out |-> NoOutcome, met |-> FALSE]]
        /\ UNCHANGED <<env, pc, args, config, result, env0, other, script, local, dicts>>

\* thr with t's next read appended, and every call in progress marked as
\* having met another when there are two.
AfterRead(t) ==
    [u \in Threads |->
        IF u = t
        THEN [thr[t] EXCEPT
                !.acc = Append(@, [attr |-> NextRead(thr[t].op, thr[t].acc),
                                   v |-> config[NextRead(thr[t].op, thr[t].acc)]]),
                !.met = @ \/ \E w \in Threads \ {t} : Running(w)]
        ELSE IF Running(u) THEN [thr[u] EXCEPT !.met = TRUE] ELSE thr[u]]

\* Faulty variant: __repr__ masks the key in place, on the instance, for the
\* time of the call, and puts it back with its last read.
ThreadReadMasking ==
    \E t \in Threads :
        /\ Running(t)
        /\ NextRead(thr[t].op, thr[t].acc) # "return"
        /\ thr' = AfterRead(t)
        /\ config' =
              IF thr[t].op # "__repr__" THEN config
              ELSE IF thr[t].acc = <<>> THEN [config EXCEPT !.api_key = Str(Marker)]
              ELSE IF NextRead(thr[t].op, thr[t].acc) = "azure_ai_project"
                   THEN [config EXCEPT !.api_key = thr[t].acc[1].v]
              ELSE config
        /\ UNCHANGED <<env, pc, args, result, env0, other, script, local, dicts>>

\* Thread t reads the next attribute of its call.
ThreadRead ==
    \E t \in Threads :
        /\ Running(t)
        /\ NextRead(thr[t].op, thr[t].acc) # "return"
        /\ thr' = AfterRead(t)
        /\ UNCHANGED <<env, pc, args, config, result, env0, other, script, local, dicts>>

\* Thread t's call returns or raises, from what it read.
ThreadReturn ==
    \E t \in Threads :
        /\ Running(t)
        /\ NextRead(thr[t].op, thr[t].acc) = "return"
        /\ thr' = [thr EXCEPT ![t] = [@ EXCEPT !.phase = "done", !.acc = <<>>,
                                                !.out = Outcome(thr[t].op, View(thr[t].acc))]]
        /\ UNCHANGED <<env, pc, args, config, result, env0, other, script, local, dicts>>

NextThreads ==
    \/ ConstructThreaded
    \/ ThreadCall
    \/ ThreadRead
    \/ ThreadReturn

SpecThreads == Init /\ [][NextThreads]_vars

----------------------------------------------------------------------------
\* aiLOCALevaluator.py, statement by statement: the project client, an agent,
\* a thread, a message and a run are created, the run is converted, nine
\* evaluators are constructed and each is called on the converted data. The
\* calls into the SDK return; the status of the run is the service's choice.

\* Values of run.status.
RunStatuses == {"completed", "failed", "cancelled"}

\* os.environ[name] raises KeyError when the variable is unset.
EnvironRaises(name) == env[name].none

LocalFrame == UNCHANGED <<env, args, config, result, env0, other, thr, script, dicts>>

LocalRaise(exc) == [local EXCEPT !.pc = "raised", !.error = exc]

\* project_endpoint = os.environ["AZURE_AI_PROJECT"]
LocalProjectEndpoint ==
    /\ pc = "env"
    /\ local.pc = "start"
    /\ pc' = "local"
    /\ local' = IF EnvironRaises("AZURE_AI_PROJECT") THEN LocalRaise("KeyError")
                ELSE [local EXCEPT !.pc = "endpoint",
                                   !.project_endpoint = env["AZURE_AI_PROJECT"]]
    /\ LocalFrame

\* Faulty variant: the deployment name is printed through os.getenv, which
\* gives None for an unset variable.
LocalPrintNamesGetenv ==
    /\ local.pc = "endpoint"
    /\ local' = [local EXCEPT !.pc = "names",
                              !.printed = @ \o <<"Using Azure AI Project endpoint",
                                                 "Using Model Deployment Name">>]
    /\ UNCHANGED pc
    /\ LocalFrame

\* print(... project_endpoint); print(... os.environ['MODEL_DEPLOYMENT_NAME'])
LocalPrintNames ==
    /\ local.pc = "endpoint"
    /\ local' = IF EnvironRaises("MODEL_DEPLOYMENT_NAME")
                THEN [LocalRaise("KeyError") EXCEPT
                        !.printed = Append(@, "Using Azure AI Project endpoint")]
                ELSE [local EXCEPT !.pc = "names",
                                   !.printed = @ \o <<"Using Azure AI Project endpoint",
                                                      "Using Model Deployment Name">>]
    /\ UNCHANGED pc
    /\ LocalFrame

\* project_client = AIProjectClient(endpoint=project_endpoint, credential=...)
LocalClient ==
    /\ local.pc = "names"
    /\ local' = [local EXCEPT !.pc = "client", !.client = TRUE]
    /\ UNCHANGED pc
    /\ LocalFrame

\* agent = project_client.agents.create_agent(model=os.environ[...], ...)
LocalCreateAgent ==
    /\ local.pc = "client"
    /\ local' = IF EnvironRaises("MODEL_DEPLOYMENT_NAME") THEN LocalRaise("KeyError")
                ELSE [local EXCEPT !.pc = "agent", !.agents = @ + 1,
                                   !.printed = Append(@, "Created agent")]
    /\ UNCHANGED pc
    /\ LocalFrame

\* thread = project_client.agents.threads.create()
LocalCreateThread ==
    /\ local.pc = "agent"
    /\ local' = [local EXCEPT !.pc = "thread", !.threads = @ + 1,
                              !.printed = Append(@, "Created thread")]
    /\ UNCHANGED pc
    /\ LocalFrame

\* message = project_client.agents.messages.create(thread_id=thread.id, ...)
LocalCreateMessage ==
    /\ local.pc = "thread"
    /\ local' = [local EXCEPT !.pc = "message", !.messages = @ + 1,
                              !.printed = Append(@, "Created message")]
    /\ UNCHANGED pc
    /\ LocalFrame

\* run = project_client.agents.runs.create_and_process(...)
LocalRun ==
    \E s \in RunStatuses :
        /\ local.pc = "message"
        /\ local' = [local EXCEPT !.pc = "run", !.runs = @ + 1, !.status = s,
                                  !.printed = Append(@, "Run finished with status")]
        /\ UNCHANGED pc
        /\ LocalFrame

\* Faulty variant: a failed run ends the script.
LocalCheckRunStops ==
    /\ local.pc = "run"
    /\ local' = IF local.status = "failed"
                THEN [LocalRaise("SystemExit") EXCEPT !.printed = Append(@, "Run failed")]
                ELSE [local EXCEPT !.pc = "checked"]
    /\ UNCHANGED pc
    /\ LocalFrame

\* if run.status == "failed": print(f"Run failed: {run.last_error}")
LocalCheckRun ==
    /\ local.pc = "run"
    /\ local' = [local EXCEPT
                    !.pc = "checked",
                    !.printed = IF local.status = "failed" THEN Append(@, "Run failed")
                                ELSE @]
    /\ UNCHANGED pc
    /\ LocalFrame

\* messages = project_client.agents.messages.list(...); for message in messages: print
LocalListMessages ==
    /\ local.pc = "checked"
    /\ local' = [local EXCEPT !.pc = "listed", !.listed = TRUE]
    /\ UNCHANGED pc
    /\ LocalFrame

\* converted_data = AIAgentConverter(project_client).convert(thread.id, run.id)
LocalConvert ==
    /\ local.pc = "listed"
    /\ local' = [local EXCEPT !.pc = "converted", !.converted = TRUE,
                              !.printed = Append(@, "Converted Data")]
    /\ UNCHANGED pc
    /\ LocalFrame

\* model_config = {...}; reasoning_model_config = {...}
LocalModelConfigs ==
    /\ local.pc = "converted"
    /\ local' = [local EXCEPT
                    !.pc = "configs",
                    !.model_config =
                        [azure_deployment |-> Getenv("AZURE_DEPLOYMENT_NAME"),
                         api_key          |-> Getenv("AZURE_API_KEY"),
                         azure_endpoint   |-> Getenv("AZURE_ENDPOINT"),
                         api_version      |-> Getenv("AZURE_API_VERSION")],
                    !.reasoning_model_config =
                        [azure_deployment |-> Str(<<"o", "3", "-", "m", "i", "n", "i">>),
                         api_key          |-> Getenv("AZURE_API_KEY"),
                         azure_endpoint   |-> Getenv("AZURE_ENDPOINT"),
                         api_version      |-> Getenv("AZURE_API_VERSION")]]
    /\ UNCHANGED pc
    /\ LocalFrame

\* An evaluator object: its class and the arguments of its constructor.
Evaluator(cls, mc, reasoning, project) ==
    [cls |-> cls, model_config |-> mc, is_reasoning_model |-> reasoning,
     azure_ai_project |-> project]

\* quality_evaluators = {...: evaluator(model_config=reasoning_model_config,
\*                                      is_reasoning_model=True) for evaluator in [...]}
LocalQualityReasoning ==
    /\ local.pc = "configs"
    /\ local' = [local EXCEPT
                    !.pc = "reasoning",
                    !.constructed =
                        [i \in 1..3 |->
                            Evaluator(<<"IntentResolutionEvaluator", "TaskAdherenceEvaluator",
                                        "ToolCallAccuracyEvaluator">>[i],
                                      local.reasoning_model_config, TRUE, None)]]
    /\ UNCHANGED pc
    /\ LocalFrame

\* quality_evaluators.update({...: evaluator(model_config=model_config) for ...})
LocalQualityOther ==
    /\ local.pc = "reasoning"
    /\ local' = [local EXCEPT
                    !.pc = "quality",
                    !.constructed =
                        @ \o [i \in 1..3 |->
                                Evaluator(<<"CoherenceEvaluator", "FluencyEvaluator",
                                            "RelevanceEvaluator">>[i],
                                          local.model_config, FALSE, None)]]
    /\ UNCHANGED pc
    /\ LocalFrame

\* azure_ai_project = os.environ.get("AZURE_AI_PROJECT"); safety_evaluators = {...};
\* quality_and_safety_evaluators = {**quality_evaluators, **safety_evaluators}
LocalSafety ==
    /\ local.pc = "quality"
    /\ local' = [local EXCEPT
                    !.pc = "loop",
                    !.azure_ai_project = Getenv("AZURE_AI_PROJECT"),
                    !.constructed =
                        @ \o [i \in 1..3 |->
                                Evaluator(<<"ContentSafetyEvaluator", "IndirectAttackEvaluator",
                                            "CodeVulnerabilityEvaluator">>[i],
                                          <<>>, FALSE, Getenv("AZURE_AI_PROJECT"))]]
    /\ UNCHANGED pc
    /\ LocalFrame

\* for name, evaluator in quality_and_safety_evaluators.items():
\*     result = evaluator(**converted_data); print(name); print(...)
LocalEvaluateNext ==
    /\ local.pc = "loop"
    /\ Len(local.called) < Len(local.constructed)
    /\ local' = [local EXCEPT
                    !.pc = IF Len(local.called) + 1 = Len(local.constructed)
                           THEN "done" ELSE "loop",
                    !.called = Append(@, local.constructed[Len(local.called) + 1].cls)]
    /\ UNCHANGED pc
    /\ LocalFrame

\* The variables set before the script starts.
SetenvLocal == SetenvIn({"AZURE_AI_PROJECT", "MODEL_DEPLOYMENT_NAME", "AZURE_API_KEY"})

\* The statements of the script.
LocalStep ==
    \/ LocalProjectEndpoint
    \/ LocalPrintNames
    \/ LocalClient
    \/ LocalCreateAgent
    \/ LocalCreateThread
    \/ LocalCreateMessage
    \/ LocalRun
    \/ LocalCheckRun
    \/ LocalListMessages
    \/ LocalConvert
    \/ LocalModelConfigs
    \/ LocalQualityReasoning
    \/ LocalQualityOther
    \/ LocalSafety
    \/ LocalEvaluateNext

NextLocal ==
    \/ SetenvLocal
    \/ LocalStep

SpecLocal == Init /\ [][NextLocal]_vars

\* The interpreter runs the script to its end: a statement that can run does.
SpecLocalRuns == SpecLocal /\ WF_vars(LocalStep)
----------------------------------------------------------------------------
\* The dictionaries get_model_config() returns, by identity. Each call
\* evaluates a dictionary display, which makes a new object; the caller holds
\* a reference to it and may add, overwrite or delete entries.

\* At most this many dictionaries are held at one time.
MaxHeld == 2

\* The keys a caller writes or deletes, and the value written.
CallerKeys == {"api_key", "extra"}
CallerValue == Str(<<"m">>)

\* Faulty variant: the dictionary is built once and kept on the instance;
\* later calls return the same object.
GetModelConfigCached ==
    /\ pc = "built"
    /\ Len(dicts.held) < MaxHeld
    /\ dicts' = IF dicts.heap = <<>>
                THEN [heap |-> <<get_model_config(config)>>, held |-> <<1>>]
                ELSE [dicts EXCEPT !.held = Append(@, 1)]
    /\ UNCHANGED <<env, pc, args, config, result, env0, other, thr, script, local>>

\* model_config = config.get_model_config()
GetModelConfigHeld ==
    /\ pc = "built"
    /\ Len(dicts.held) < MaxHeld
    /\ dicts' = [heap |-> Append(dicts.heap, get_model_config(config)),
                 held |-> Append(dicts.held, Len(dicts.heap) + 1)]
    /\ UNCHANGED <<env, pc, args, config, result, env0, other, thr, script, local>>

\* d[k] = v on a dictionary d
DictSet(d, k, v) == [x \in DOMAIN d \cup {k} |-> IF x = k THEN v ELSE d[x]]
\* del d[k]
DictDel(d, k) == [x \in DOMAIN d \ {k} |-> d[x]]

\* model_config[k] = v, by the holder of the i-th returned dictionary
CallerSets ==
    \E i \in DOMAIN dicts.held, k \in CallerKeys :
        /\ dicts' = [dicts EXCEPT !.heap[dicts.held[i]] = DictSet(@, k, CallerValue)]
        /\ UNCHANGED <<env, pc, args, config, result, env0, other, thr, script, local>>

\* del model_config[k], by the holder of the i-th returned dictionary
CallerDeletes ==
    \E i \in DOMAIN dicts.held, k \in CallerKeys :
        /\ k \in DOMAIN dicts.heap[dicts.held[i]]
        /\ dicts' = [dicts EXCEPT !.heap[dicts.held[i]] = DictDel(@, k)]
        /\ UNCHANGED <<env, pc, args, config, result, env0, other, thr, script, local>>

NextHeld ==
    \/ Setenv
    \/ Delenv
    \/ ConstructFromEnv
    \/ GetModelConfigHeld
    \/ CallerSets
    \/ CallerDeletes

SpecHeld == Init /\ [][NextHeld]_vars

----------------------------------------------------------------------------
\* Vocabulary of the properties.

Required == {"azure_deployment", "api_key", "azure_endpoint", "api_version"}
RequiredOrder == <<"azure_deployment", "api_key", "azure_endpoint", "api_version">>

\* The environment variable of each field.
EnvName ==
    [azure_deployment |-> "AZURE_DEPLOYMENT_NAME",
     api_key          |-> "AZURE_API_KEY",
     azure_endpoint   |-> "AZURE_ENDPOINT",
     api_version      |-> "AZURE_API_VERSION",
     azure_ai_project |-> "AZURE_AI_PROJECT"]

\* The name of each required field, as text.
NameText ==
    [azure_deployment |-> N_azure_deployment,
     api_key          |-> N_api_key,
     azure_endpoint   |-> N_azure_endpoint,
     api_version      |-> N_api_version]

NonEmpty(v) == v # None /\ v # Str(<<>>)
EnvUnset == \A v \in EnvVars : env[v] = None
Built == pc = "built"

\* needle occurs in hay as a contiguous substring.
Contains(hay, needle) ==
    \E i \in 0..(Len(hay) - Len(needle)) : SubSeq(hay, i + 1, i + Len(needle)) = needle

\* The names of fs, each after the first preceded by ", ".
RECURSIVE CommaList(_)
CommaList(fs) ==
    IF fs = <<>> THEN <<>>
    ELSE CommaList(SubSeq(fs, 1, Len(fs) - 1))
         \o (IF Len(fs) > 1 THEN <<",", " ">> ELSE <<>>)
         \o NameText[fs[Len(fs)]]

MissingInOrder == SelectSeq(RequiredOrder, LAMBDA f : ~NonEmpty(config[f]))

----------------------------------------------------------------------------
\* C1: with all five environment variables unset, is_valid() returns True
\* exactly when each of the four required constructor arguments is a
\* non-empty string, and False as soon as one of them is None or empty.
C1_IsValidIffAllArgsNonEmpty ==
    (result.op = "is_valid" /\ EnvUnset) =>
        (result.bool = (\A f \in Required : NonEmpty(args[f])))

C1_Witness ==
    /\ result.op = "is_valid"
    /\ EnvUnset
    /\ result.bool = FALSE
    /\ args.api_version = Str(<<>>)
    /\ \A f \in Required \ {"api_version"} : NonEmpty(args[f])

\* C2: when at least one required field is missing, validate() raises
\* ValueError and its message is the fixed prefix followed by the names of all
\* the missing required fields, in the order azure_deployment, api_key,
\* azure_endpoint, api_version, separated by ", ".
C2_ValidateListsEveryMissingField ==
    (result.op = "validate" /\ MissingInOrder # <<>>) =>
        /\ result.raised
        /\ result.exc = "ValueError"
        /\ result.text = MsgPrefix \o CommaList(MissingInOrder)
        /\ \A f \in Required : ~NonEmpty(config[f]) => Contains(result.text, NameText[f])

C2_Witness ==
    /\ result.op = "validate"
    /\ result.raised
    /\ Len(MissingInOrder) = 3
    /\ NonEmpty(config.azure_endpoint)

\* C3: whenever the API key is a non-empty string, the text repr() returns
\* does not contain the whole key as a substring.
C3_ReprNeverContainsKey ==
    (result.op = "__repr__" /\ NonEmpty(config.api_key)) =>
        ~Contains(result.text, config.api_key.s)

\* C4: repr() shows the API key as its first 4 characters, "...", and its last
\* 4 characters when the key is present and longer than 8 characters, and as
\* "****" when it is absent, empty or at most 8 characters long.
ShownKey(k) ==
    IF k # None /\ Len(k.s) > 8
    THEN <<k.s[1], k.s[2], k.s[3], k.s[4], ".", ".", ".",
           k.s[Len(k.s) - 3], k.s[Len(k.s) - 2], k.s[Len(k.s) - 1], k.s[Len(k.s)]>>
    ELSE <<"*", "*", "*", "*">>

C4_ReprShowsMaskedKey ==
    result.op = "__repr__" =>
        Contains(result.text,
                 <<",", " ">> \o N_api_key \o <<"=", "'">> \o ShownKey(config.api_key)
                 \o <<"'", ",", " ">>)

C4_Witness ==
    /\ result.op = "__repr__"
    /\ Len(config.api_key.s) = 9
    /\ config.api_key.s[1] # config.api_key.s[9]
    /\ Contains(result.text, <<config.api_key.s[1], ".", ".", ".", config.api_key.s[9]>>)

\* C5: for each field, when the constructor argument is given (a non-empty
\* string) and the field's environment variable is set to a different value,
\* the attribute equals the argument.
C5_ArgumentOverridesEnvironment ==
    Built =>
        \A f \in Fields :
            (NonEmpty(args[f]) /\ env[EnvName[f]] # None /\ env[EnvName[f]] # args[f])
                => config[f] = args[f]

C5_Witness ==
    /\ Built
    /\ args.azure_deployment = Str(<<"x">>)
    /\ env["AZURE_DEPLOYMENT_NAME"] = Str(<<"w">>)
    /\ config.azure_deployment = Str(<<"x">>)

\* C6: for each field, when the constructor argument provides no value (None
\* or empty) and the field's environment variable is unset, the attribute is
\* None, and so is not the empty string.
C6_AbsentIsNone ==
    Built =>
        \A f \in Fields :
            (~NonEmpty(args[f]) /\ env[EnvName[f]] = None)
                => (config[f] = None /\ config[f] # Str(<<>>))

C6_Witness ==
    /\ Built
    /\ args.api_key = Str(<<>>)
    /\ env["AZURE_API_KEY"] = None
    /\ config.api_key = None

\* C7: is_valid() returns True exactly when every required field is provided
\* (non-empty) by its constructor argument or by its environment variable.
C7_IsValidIffUnionCovers ==
    result.op = "is_valid" =>
        (result.bool = (\A f \in Required : NonEmpty(args[f]) \/ NonEmpty(env[EnvName[f]])))

C7_Witness ==
    /\ result.op = "is_valid"
    /\ result.bool = TRUE
    /\ \E f \in Required : ~NonEmpty(args[f]) /\ NonEmpty(env[EnvName[f]])
    /\ \E f \in Required : NonEmpty(args[f]) /\ env[EnvName[f]] = None

\* C8: get_model_config() returns a mapping whose keys are exactly
\* azure_deployment, api_key, azure_endpoint and api_version, each mapped to
\* the attribute of that name (None included); azure_ai_project is no key.
C8_ModelConfigHasTheFourAttributes ==
    result.op = "get_model_config" =>
        /\ DOMAIN result.map = Required
        /\ \A k \in Required : result.map[k] = config[k]
        /\ "azure_ai_project" \notin DOMAIN result.map

C8_Witness ==
    /\ result.op = "get_model_config"
    /\ NonEmpty(config.azure_ai_project)
    /\ result.map["api_key"] = None
    /\ NonEmpty(result.map["azure_endpoint"])

\* C9: on an instance whose four required attributes are all present, every
\* validate() call, the first and each repeated one, returns normally with no
\* value and leaves the five attributes as they were.
C9_ValidateIdempotentWhenComplete ==
    [][(/\ Built
        /\ \A f \in Required : NonEmpty(config[f])
        /\ result'.op = "validate"
        /\ result' # result)
       => (/\ ~result'.raised
           /\ result'.exc = ""
           /\ result'.text = <<>>
           /\ config' = config)]_vars

C9_Witness ==
    /\ result.op = "validate"
    /\ result.times >= 2
    /\ ~result.raised
    /\ \A f \in Required : NonEmpty(config[f])

\* C10: is_valid() and validate() agree on every instance: is_valid() returns
\* True exactly when validate() returns without raising.
C10_IsValidAgreesWithValidate ==
    /\ result.op = "is_valid" => (result.bool = ~validate(config).raised)
    /\ result.op = "validate" => (result.raised = ~is_valid(config))

C10_Witness ==
    /\ result.op = "validate"
    /\ result.raised
    /\ config.api_key = Str(<<>>)
    /\ \A f \in Required \ {"api_key"} : NonEmpty(config[f])

\* C11: when all five constructor arguments are given (non-empty strings),
\* each attribute is exactly the argument passed for it, whatever the
\* environment holds.
C11_ExplicitValuesRoundTrip ==
    (Built /\ \A f \in Fields : NonEmpty(args[f])) => config = args

C11_Witness ==
    /\ Built
    /\ \A f \in Fields : args[f] = Str(<<"x">>) /\ config[f] = Str(<<"x">>)
    /\ env["AZURE_API_KEY"] = Str(<<"w">>)
    /\ env["AZURE_AI_PROJECT"] = Str(<<>>)

\* C12: the result of is_valid(), and whether validate() raises and with which
\* message, are what they would be with azure_ai_project absent, empty or set
\* to any other value: they depend on the four required attributes alone.
ProjectValues == {None, Str(<<>>), Str(<<"x">>), Str(<<"w">>)}
WithProject(p) == [config EXCEPT !.azure_ai_project = p]

C12_ProjectNotRequired ==
    \A p \in ProjectValues :
        /\ result.op = "is_valid" => result.bool = is_valid(WithProject(p))
        /\ result.op = "validate" =>
            /\ result.raised = validate(WithProject(p)).raised
            /\ result.text = validate(WithProject(p)).text

C12_Witness ==
    /\ result.op = "validate"
    /\ ~result.raised
    /\ config.azure_ai_project = None

\* C13: once the instance is constructed, no call of get_model_config(),
\* is_valid(), validate() (returning or raising) or __repr__() changes any of
\* its five attributes.
C13_AttributesNeverChange ==
    [][Built => config' = config]_vars

C13_Witness ==
    /\ result.op = "validate"
    /\ result.raised
    /\ result.times = 2
    /\ config.azure_endpoint = Str(<<>>)

\* C14: is_valid(), get_model_config() and __repr__() always return a value
\* and never raise, also when every attribute is None; only validate() raises.
C14_OnlyValidateRaises ==
    /\ result.raised => result.op = "validate"
    /\ result.op \in {"is_valid", "get_model_config", "__repr__"} => result.exc = ""
    /\ result.op = "__repr__" => Len(result.text) > 0
    /\ result.op = "get_model_config" => DOMAIN result.map # {}

C14_Witness ==
    /\ result.op = "__repr__"
    /\ ~result.raised
    /\ \A f \in Fields : config[f] = None

\* C19: when validate() raises, its message names a required field exactly
\* when that field is missing; built with only azure_endpoint given and the
\* environment unset, it names azure_deployment, api_key and api_version and
\* does not name azure_endpoint.
C19_MessageNamesOnlyMissingFields ==
    (result.op = "validate" /\ result.raised) =>
        \A f \in Required : Contains(result.text, NameText[f]) = ~NonEmpty(config[f])

C19_Witness ==
    /\ result.op = "validate"
    /\ result.raised
    /\ EnvUnset
    /\ NonEmpty(args.azure_endpoint)
    /\ \A f \in Fields \ {"azure_endpoint"} : args[f] = None
    /\ Contains(result.text, N_azure_deployment)
    /\ Contains(result.text, N_api_key)
    /\ Contains(result.text, N_api_version)
    /\ ~Contains(result.text, N_azure_endpoint)

\* C20: for each field, when the constructor argument is None or the empty
\* string, the attribute is whatever the field's own environment variable
\* holds (None when it is unset); no other variable is read for it.
C20_EmptyArgumentFallsBackToOwnVariable ==
    Built =>
        \A f \in Fields : ~NonEmpty(args[f]) => config[f] = env[EnvName[f]]

C20_Witness ==
    /\ Built
    /\ args.azure_endpoint = Str(<<>>)
    /\ env["AZURE_ENDPOINT"] = Str(<<"w">>)
    /\ env["AZURE_AI_PROJECT"] = None
    /\ config.azure_endpoint = Str(<<"w">>)
    /\ config.azure_ai_project = None

\* C15: an evaluator is constructed only with a model configuration whose
\* four values are all present.
C15_EvaluatorsGetCompleteConfig ==
    \A i \in DOMAIN script.evaluators :
        \A k \in Required : NonEmpty(script.evaluators[i].model_config[k])

\* The value each field had when the constructor returned, from the
\* arguments and the environment of that moment.
AtConstruction(f) == IF NonEmpty(args[f]) THEN args[f] ELSE env0[EnvName[f]]
MissingAtConstruction == SelectSeq(RequiredOrder, LAMBDA f : ~NonEmpty(AtConstruction(f)))

\* What a call returned or raised, without the count of calls.
OutcomeOf(r) ==
    [raised |-> r.raised, exc |-> r.exc, bool |-> r.bool, text |-> r.text, map |-> r.map]

\* C16: the environment is read only by the constructor. Once the instance is
\* built, a step that sets, changes or deletes an environment variable leaves
\* the attributes and the last result as they are, the attributes stay what
\* the arguments and the environment of construction time made them, a call
\* repeated after the environment changed gives what it gave before, and
\* is_valid(), validate() and get_model_config() give what the values of
\* construction time determine, whatever the environment has become.
C16_EnvironmentReadOnlyAtConstruction ==
    [][Built =>
        /\ config' = config
        /\ \A f \in Fields : config'[f] = AtConstruction(f)
        /\ env' # env => result' = result
        /\ result'.op = result.op => OutcomeOf(result') = OutcomeOf(result)
        /\ result'.op = "is_valid" => result'.bool = (MissingAtConstruction = <<>>)
        /\ result'.op = "validate" =>
              /\ result'.raised = (MissingAtConstruction # <<>>)
              /\ result'.raised =>
                    result'.text = MsgPrefix \o CommaList(MissingAtConstruction)
        /\ result'.op = "get_model_config" =>
              \A k \in Required : result'.map[k] = AtConstruction(k)
    ]_vars

\* is_valid() has answered False twice although the environment, changed
\* since construction, now holds what the instance lacks.
C16_Witness ==
    /\ Built
    /\ env # env0
    /\ result.op = "is_valid"
    /\ result.times >= 2
    /\ ~result.bool
    /\ \A f \in Required : NonEmpty(config[f]) \/ NonEmpty(env[EnvName[f]])

\* C17: instances are independent. A step that constructs the second
\* instance or calls an operation on it leaves the attributes and the last
\* result of the first instance as they are; the attributes of the first stay
\* what its own construction made them; and an operation of the first called
\* again after the second was constructed or used gives what it gave before.
C17_InstancesAreIndependent ==
    [][Built =>
        /\ other' # other => (config' = config /\ result' = result)
        /\ \A f \in Fields : config'[f] = AtConstruction(f)
        /\ (result'.op = result.op /\ result.op \in Ops) =>
              OutcomeOf(result') = OutcomeOf(result)
    ]_vars

\* The first instance has failed validate() twice while a second, complete
\* instance with other attributes has passed it.
C17_Witness ==
    /\ Built
    /\ other.pc = "built"
    /\ other.config # config
    /\ other.op = "validate"
    /\ ~other.out.raised
    /\ result.op = "validate"
    /\ result.times >= 2
    /\ result.raised

\* The attributes as construction made them.
ConfigAtConstruction == [f \in Fields |-> AtConstruction(f)]

\* C18: under every interleaving of the attribute reads of concurrent
\* is_valid(), validate(), get_model_config() and __repr__() calls on one
\* instance, each call that has finished returned or raised what the same
\* operation gives when it runs alone on the instance as constructed.
C18_ConcurrentReadsAgree ==
    \A t \in Threads :
        thr[t].phase = "done" =>
            thr[t].out = Outcome(thr[t].op, ConfigAtConstruction)

\* Two calls that overlapped have both finished: validate() raised in one
\* thread, __repr__() returned the abbreviated long key in the other.
C18_Witness ==
    /\ thr.t1.phase = "done" /\ thr.t1.met
    /\ thr.t1.op = "validate" /\ thr.t1.out.raised
    /\ thr.t2.phase = "done" /\ thr.t2.met
    /\ thr.t2.op = "__repr__" /\ Contains(thr.t2.out.text, <<"x", "x", "x", "x">> \o Ellipsis)

\* C21: built with no arguments, the instance gives a get_model_config()
\* equal, key for key and value for value, unset variables included, to the
\* model_config dictionary the scripts build from os.getenv in the same
\* environment.
C21_ModelConfigEqualsInlineDictionary ==
    (result.op = "get_model_config" /\ args = NoArgs) =>
        /\ DOMAIN result.map = DOMAIN CloudModelConfigValue
        /\ \A k \in DOMAIN CloudModelConfigValue : result.map[k] = CloudModelConfigValue[k]

\* The comparison made in an environment with one variable unset, one set to
\* the empty string and one set to a text.
C21_Witness ==
    /\ result.op = "get_model_config"
    /\ args = NoArgs
    /\ env["AZURE_DEPLOYMENT_NAME"] = None
    /\ env["AZURE_API_KEY"] = Str(<<>>)
    /\ env["AZURE_ENDPOINT"] = Str(<<"w">>)
    /\ result.map.api_key = Str(<<>>)
    /\ result.map.azure_deployment = None

\* C22: the evaluator_config passed to evaluate() has "groundedness" and
\* "similarity" as its two top-level entries, each with its own
\* "column_mapping", that of similarity mapping ground_truth to
\* ${data.context}.
C22_EvaluatorConfigHasBothEntries ==
    script.pc = "done" =>
        /\ DOMAIN script.evaluate.evaluator_config = {"groundedness", "similarity"}
        /\ "column_mapping" \in DOMAIN script.evaluate.evaluator_config.groundedness
        /\ "column_mapping" \in DOMAIN script.evaluate.evaluator_config.similarity
        /\ script.evaluate.evaluator_config.similarity.column_mapping.ground_truth
              = "${data.context}"

\* The name of each of the five fields, as text, and the entry name=text.
FieldText ==
    [azure_deployment |-> N_azure_deployment,
     api_key          |-> N_api_key,
     azure_endpoint   |-> N_azure_endpoint,
     api_version      |-> N_api_version,
     azure_ai_project |-> N_azure_ai_project]
Entry(f, text) == FieldText[f] \o <<"=">> \o text

\* C23: repr(config) contains "EvaluationConfig(", an api_key= entry, and for
\* each of azure_deployment, azure_endpoint, api_version and azure_ai_project
\* the entry name=<Python repr of the attribute's value>, None for an absent
\* value.
C23_ReprShowsAllFiveFields ==
    (result.op = "__repr__" /\ ~result.raised) =>
        /\ Contains(result.text, <<"E", "v", "a", "l", "u", "a", "t", "i", "o", "n",
                                   "C", "o", "n", "f", "i", "g", "(">>)
        /\ Contains(result.text, Entry("api_key", <<>>))
        /\ \A f \in Fields \ {"api_key"} :
              Contains(result.text,
                       Entry(f, IF config[f] = None THEN <<"N", "o", "n", "e">>
                                ELSE PyReprStr(config[f].s)))

\* A text with an absent endpoint and a project holding a quote character.
C23_Witness ==
    /\ result.op = "__repr__"
    /\ config.azure_endpoint = None
    /\ config.azure_ai_project = Str(<<"w", "'">>)
    /\ Contains(result.text, Entry("azure_endpoint", <<"N", "o", "n", "e">>))
    /\ Contains(result.text, Entry("azure_ai_project", <<"\"", "w", "'", "\"">>))

\* The four attributes a get_model_config() call is to return.
FourAttributes == [k \in Required |-> config[k]]

\* C24: get_model_config() returns a fresh mapping on every call. A step that
\* adds, overwrites or deletes an entry of a returned mapping leaves the
\* attributes as they are and changes the mapping held from no other call; a
\* call leaves every mapping returned before as it is and returns the four
\* attributes, whatever was done to the mappings returned before.
C24_ReturnedMappingIsFresh ==
    [][Built =>
        /\ dicts' # dicts => config' = config
        /\ Len(dicts'.held) = Len(dicts.held) =>
              Cardinality({j \in DOMAIN dicts.held :
                              dicts'.heap[dicts'.held[j]] # dicts.heap[dicts.held[j]]}) <= 1
        /\ Len(dicts'.held) = Len(dicts.held) + 1 =>
              /\ \A j \in DOMAIN dicts.held :
                    dicts'.heap[dicts'.held[j]] = dicts.heap[dicts.held[j]]
              /\ dicts'.heap[dicts'.held[Len(dicts'.held)]] = FourAttributes
    ]_vars

\* Two mappings are held: the key was deleted from the first and an entry
\* added to it, and the second is whole.
C24_Witness ==
    /\ Built
    /\ NonEmpty(config.api_key)
    /\ Len(dicts.held) = 2
    /\ DOMAIN dicts.heap[dicts.held[1]] = (Required \ {"api_key"}) \cup {"extra"}
    /\ dicts.heap[dicts.held[2]] = FourAttributes

\* The nine evaluators of the script, in the order of the merged dictionary.
NineEvaluators ==
    <<"IntentResolutionEvaluator", "TaskAdherenceEvaluator", "ToolCallAccuracyEvaluator",
      "CoherenceEvaluator", "FluencyEvaluator", "RelevanceEvaluator",
      "ContentSafetyEvaluator", "IndirectAttackEvaluator", "CodeVulnerabilityEvaluator">>

\* The script has listed the messages, converted the run and called each of
\* the nine evaluators.
WentOn ==
    /\ local.pc = "done"
    /\ local.listed
    /\ local.converted
    /\ local.called = NineEvaluators

\* C25: a failed run never stops the script. The status check changes nothing
\* but the position of the script and, for a failed run only, what is printed;
\* and whatever the status of the run, failed included, the script goes on to
\* list the messages, convert the thread and run, and call each of the nine
\* evaluators.
C25_FailedRunDoesNotStopScript ==
    /\ [][local.pc = "run" =>
            /\ local'.pc = "checked"
            /\ local' = [local EXCEPT !.pc = local'.pc, !.printed = local'.printed]
            /\ local'.printed = IF local.status = "failed"
                                THEN Append(local.printed, "Run failed")
                                ELSE local.printed]_vars
    /\ \A s \in RunStatuses :
          (local.pc = "run" /\ local.status = s) ~> (WentOn /\ local.status = s)

\* The script is at its end after a failed run: the error was printed, and the
\* messages were listed, the run converted and the nine evaluators called.
C25_Witness ==
    /\ WentOn
    /\ local.status = "failed"
    /\ \E i \in DOMAIN local.printed : local.printed[i] = "Run failed"
    /\ Len(local.called) = 9

\* C26: when AZURE_AI_PROJECT or MODEL_DEPLOYMENT_NAME is unset, the script
\* fails with KeyError before the project client is constructed: once started
\* it is at the failed lookup, or about to make it, and no client, agent,
\* thread, message or run exists.
C26_MissingVariableStopsBeforeClient ==
    (local.pc # "start"
        /\ (env["AZURE_AI_PROJECT"] = None \/ env["MODEL_DEPLOYMENT_NAME"] = None)) =>
        /\ local.pc \in {"endpoint", "raised"}
        /\ local.pc = "endpoint" => env["AZURE_AI_PROJECT"] # None
        /\ local.pc = "raised" => local.error = "KeyError"
        /\ ~local.client
        /\ local.agents = 0 /\ local.threads = 0 /\ local.messages = 0 /\ local.runs = 0

\* The project is set and the deployment name is not: the script printed the
\* endpoint and failed at the second lookup.
C26_Witness ==
    /\ local.pc = "raised"
    /\ local.error = "KeyError"
    /\ env["AZURE_AI_PROJECT"] # None
    /\ env["MODEL_DEPLOYMENT_NAME"] = None
    /\ local.printed = <<"Using Azure AI Project endpoint">>
    /\ ~local.client

====
